---- MODULE Spec2Model ----
(***************************************************************************)
(* TailorTalk calendar booking agent: the conversation graph of            *)
(* backend/agent.py, the calendar tools of backend/tools.py, the           *)
(* availability resolver of backend/calendar_service.py and the message    *)
(* store of backend/database.py.                                           *)
(*                                                                         *)
(* Time is an integer number of minutes on one local time line; minute 0   *)
(* is a Monday at 00:00.  A date string "YYYY-MM-DD" is the day number, a  *)
(* time string "HH:MM" is the minute of the day.  strftime keeps only the  *)
(* part its format names, strptime fails on a string that is not in the    *)
(* format.                                                                 *)
(*                                                                         *)
(* The graph is read as the code writes it: each node returns the state    *)
(* dictionary it was given with some keys replaced, and the next node      *)
(* (chosen by the routing callback) receives that dictionary.              *)
(***************************************************************************)
EXTENDS Integers, Sequences, FiniteSets, TLC

VARIABLES
    now,            \* datetime.now(), minutes
    calendar,       \* the events held by the calendar provider
    conversations,  \* CalendarAgent.conversations (in-memory sessions)
    dbEnabled,      \* database.SessionLocal is not None
    db_messages,    \* table messages, per conversation_id, oldest first
    db_states,      \* table conversation_states, per conversation_id
    db_events,      \* table calendar_events
    req,            \* the process_message calls in flight, per request slot
    turns,          \* number of process_message calls started
    accum,          \* history: per conversation, merge of all extractions
    fs              \* the resolver called on its own: inputs and result

vars == <<now, calendar, conversations, dbEnabled, db_messages, db_states,
          db_events, req, turns, accum, fs>>

-----------------------------------------------------------------------------
(* Values a JSON field of the extraction can take besides a proper value.  *)
Absent == -1    \* the key is not in the dictionary
Null   == -2    \* the key is there with JSON null
Bad    == -3    \* a non-empty string that strptime cannot parse
Empty  == -4    \* the empty string

\* Python truthiness of dict.get(key): None and "" are false
Truthy(v) == v >= 0 \/ v = Bad

\* dict.get(key, default): the default only replaces a missing key
GetOr(v, default) == IF v = Absent THEN default ELSE v

-----------------------------------------------------------------------------
(* datetime arithmetic *)
MinutesPerDay == 1440
business_start == 9
business_end == 17
SlotStep == 30
DefaultDuration == 60
num_suggestions == 3
days_ahead == 7

DateOf(t) == t \div MinutesPerDay            \* strftime('%Y-%m-%d'), .date()
TimeOf(t) == t % MinutesPerDay               \* strftime('%H:%M')
HourOf(t) == (t % MinutesPerDay) \div 60     \* .hour
WeekdayOf(t) == (t \div MinutesPerDay) % 7   \* .weekday(), Monday is 0
\* replace(hour=business_start, minute=0, second=0, microsecond=0)
AtBusinessStart(t) == DateOf(t) * MinutesPerDay + business_start * 60
\* strptime(f"{date} {start_time}", "%Y-%m-%d %H:%M")
ParseDateTime(date, start_time) == date * MinutesPerDay + start_time

-----------------------------------------------------------------------------
(* GoogleCalendarService *)

\* An event of the provider: [start, end) in minutes; tz tells whether the
\* provider renders its start and end with a UTC offset ('dateTime' of a
\* timed event) or without one ('date' of an all-day event).
Event(id, s, e, tz) == [id |-> id, start |-> s, end |-> e, tz |-> tz]

\* a listing that only returns the events starting strictly inside the
\* range
get_events_StartInside(cal, start_time, end_time) ==
    {ev \in cal : ev.start > start_time /\ ev.start < end_time}

\* events().list(timeMin, timeMax): the events that end after timeMin and
\* start before timeMax
get_events(cal, start_time, end_time) ==
    {ev \in cal : ev.end > start_time /\ ev.start < end_time}

\* the overlap test with the event's end compared twice
Overlaps_EndTwice(start_time, end_time, ev) ==
    start_time < ev.end /\ end_time > ev.end

\* the overlap test that only sees an event starting inside the candidate
Overlaps_StartInside(start_time, end_time, ev) ==
    start_time <= ev.start /\ ev.start < end_time

\* the overlap test of check_availability
Overlaps(start_time, end_time, ev) ==
    start_time < ev.end /\ end_time > ev.start

\* check_availability with an except branch that answers True
check_availability_FailOpen(cal, start_time, end_time, readOk) ==
    \/ ~readOk
    \/ \A ev \in get_events(cal, start_time, end_time) :
          /\ ~ev.tz
          /\ ~Overlaps(start_time, end_time, ev)

\* check_availability: False when the listing raises (readOk = FALSE), when
\* the comparison of the naive candidate with an offset-aware event raises
\* TypeError, or when an event overlaps; True otherwise
check_availability(cal, start_time, end_time, readOk) ==
    /\ readOk
    /\ \A ev \in get_events(cal, start_time, end_time) :
          /\ ~ev.tz
          /\ ~Overlaps(start_time, end_time, ev)

Slot(cur, slot_end) ==
    [date |-> DateOf(cur), start_time |-> TimeOf(cur),
     end_time |-> TimeOf(slot_end),
     start_datetime |-> cur, end_datetime |-> slot_end]

\* the condition of the while loop of find_free_slots
\* the loop condition letting one slot too many in
LoopContinues_OneMore(cur, end_date, num_slots, acc) ==
    cur < end_date /\ Len(acc) <= num_slots

LoopContinues(cur, end_date, num_slots, acc) ==
    cur < end_date /\ Len(acc) < num_slots

\* the body of the loop with a weekend branch that forgets to add a day
LoopBody_WeekendStays(cal, cur, duration, acc, readOk) ==
    IF WeekdayOf(cur) >= 5
    THEN [cur |-> AtBusinessStart(cur), acc |-> acc]
    ELSE IF HourOf(cur) >= business_end
    THEN [cur |-> AtBusinessStart(cur + MinutesPerDay), acc |-> acc]
    ELSE LET c == IF HourOf(cur) < business_start
                  THEN AtBusinessStart(cur) ELSE cur
             slot_end == c + duration
         IN [cur |-> c + SlotStep,
             acc |-> IF check_availability(cal, c, slot_end, readOk)
                     THEN Append(acc, Slot(c, slot_end)) ELSE acc]

\* the body of the loop with a weekend test that lets Saturday through
LoopBody_SaturdayOpen(cal, cur, duration, acc, readOk) ==
    IF WeekdayOf(cur) > 5
    THEN [cur |-> AtBusinessStart(cur + MinutesPerDay), acc |-> acc]
    ELSE IF HourOf(cur) >= business_end
    THEN [cur |-> AtBusinessStart(cur + MinutesPerDay), acc |-> acc]
    ELSE LET c == IF HourOf(cur) < business_start
                  THEN AtBusinessStart(cur) ELSE cur
             slot_end == c + duration
         IN [cur |-> c + SlotStep,
             acc |-> IF check_availability(cal, c, slot_end, readOk)
                     THEN Append(acc, Slot(c, slot_end)) ELSE acc]

\* one pass through the body of the while loop, from cursor cur with
\* free_slots = acc: the cursor and free_slots after it
\* the body of the loop with a slot kept only when it ends by 17:00
LoopBody_ClipsAtClose(cal, cur, duration, acc, readOk) ==
    IF WeekdayOf(cur) >= 5
    THEN [cur |-> AtBusinessStart(cur + MinutesPerDay), acc |-> acc]
    ELSE IF HourOf(cur) >= business_end
    THEN [cur |-> AtBusinessStart(cur + MinutesPerDay), acc |-> acc]
    ELSE LET c == IF HourOf(cur) < business_start
                  THEN AtBusinessStart(cur) ELSE cur
             slot_end == c + duration
         IN [cur |-> c + SlotStep,
             acc |-> IF /\ check_availability(cal, c, slot_end, readOk)
                        /\ slot_end <= DateOf(c) * MinutesPerDay
                                        + business_end * 60
                     THEN Append(acc, Slot(c, slot_end)) ELSE acc]

\* the body of the loop with a cursor that moves past a slot it has found
LoopBody_JumpsPastSlot(cal, cur, duration, acc, readOk) ==
    IF WeekdayOf(cur) >= 5
    THEN [cur |-> AtBusinessStart(cur + MinutesPerDay), acc |-> acc]
    ELSE IF HourOf(cur) >= business_end
    THEN [cur |-> AtBusinessStart(cur + MinutesPerDay), acc |-> acc]
    ELSE LET c == IF HourOf(cur) < business_start
                  THEN AtBusinessStart(cur) ELSE cur
             slot_end == c + duration
         IN IF check_availability(cal, c, slot_end, readOk)
            THEN [cur |-> slot_end, acc |-> Append(acc, Slot(c, slot_end))]
            ELSE [cur |-> c + SlotStep, acc |-> acc]

LoopBody(cal, cur, duration, acc, readOk) ==
    IF WeekdayOf(cur) >= 5
    THEN [cur |-> AtBusinessStart(cur + MinutesPerDay), acc |-> acc]
    ELSE IF HourOf(cur) >= business_end
    THEN [cur |-> AtBusinessStart(cur + MinutesPerDay), acc |-> acc]
    ELSE LET c == IF HourOf(cur) < business_start
                  THEN AtBusinessStart(cur) ELSE cur
             slot_end == c + duration
         IN [cur |-> c + SlotStep,
             acc |-> IF check_availability(cal, c, slot_end, readOk)
                     THEN Append(acc, Slot(c, slot_end)) ELSE acc]

\* the passes of the loop made while the cursor is on the given day
RECURSIVE DayLoop(_, _, _, _, _, _, _, _)
DayLoop(cal, cur, day, end_date, duration, num_slots, acc, readOk) ==
    IF DateOf(cur) # day \/ ~LoopContinues(cur, end_date, num_slots, acc)
    THEN [cur |-> cur, acc |-> acc]
    ELSE LET after == LoopBody(cal, cur, duration, acc, readOk)
         IN DayLoop(cal, after.cur, day, end_date, duration, num_slots,
                    after.acc, readOk)

\* the while loop of find_free_slots, from cursor cur with free_slots = acc,
\* taken one day of the cursor at a time
RECURSIVE FreeSlotsLoop(_, _, _, _, _, _, _)
FreeSlotsLoop(cal, cur, end_date, duration, num_slots, acc, readOk) ==
    IF ~LoopContinues(cur, end_date, num_slots, acc) THEN acc
    ELSE LET after == DayLoop(cal, cur, DateOf(cur), end_date, duration,
                              num_slots, acc, readOk)
         IN FreeSlotsLoop(cal, after.cur, end_date, duration, num_slots,
                          after.acc, readOk)

\* find_free_slots: timedelta(minutes=None) raises, and the except returns []
find_free_slots(cal, start_date, end_date, duration_minutes, num_slots, readOk) ==
    IF duration_minutes = Null THEN <<>>
    ELSE FreeSlotsLoop(cal, start_date, end_date, duration_minutes,
                       num_slots, <<>>, readOk)

-----------------------------------------------------------------------------
(* Bounds of the model *)
MaxTurns == 2

ConvIds == {"A", "B"}
Reqs == {1, 2}

\* calendars the provider may hold at the start
EventPool ==
    { Event(1, 3 * MinutesPerDay + 600, 3 * MinutesPerDay + 630, TRUE),
      Event(2, 3 * MinutesPerDay + 540, 3 * MinutesPerDay + 1020, FALSE),
      Event(3, 0, 21 * MinutesPerDay, FALSE) }

-----------------------------------------------------------------------------
(* CalendarTools *)

\* strptime succeeds on a well-formed date and time
Parses(v) == v >= 0

\* check_specific_time_availability: any exception (a string strptime
\* rejects, timedelta(minutes=None)) is caught and gives False
check_specific_time_availability(cal, date, start_time, duration, readOk) ==
    /\ Parses(date) /\ Parses(start_time)
    /\ duration # Null
    /\ LET start_datetime == ParseDateTime(date, start_time)
           end_datetime == start_datetime + duration
       IN check_availability(cal, start_datetime, end_datetime, readOk)

\* find_available_slots without the replacement of a date in the past
find_available_slots_KeepsPast(cal, t, start_date, duration, num, days, readOk) ==
    IF ~Parses(start_date) THEN <<>>
    ELSE LET start_datetime == start_date * MinutesPerDay
             end_search_date == start_datetime + days * MinutesPerDay
         IN find_free_slots(cal, start_datetime, end_search_date, duration,
                            num, readOk)

\* find_available_slots: a start date before today is replaced by today at
\* 09:00; the search ends days after the start; any exception gives []
find_available_slots(cal, t, start_date, duration, num, days, readOk) ==
    IF ~Parses(start_date) THEN <<>>
    ELSE LET parsed == start_date * MinutesPerDay
             start_datetime == IF start_date < DateOf(t)
                               THEN AtBusinessStart(t) ELSE parsed
             end_search_date == start_datetime + days * MinutesPerDay
         IN find_free_slots(cal, start_datetime, end_search_date, duration,
                            num, readOk)

\* create_event raises when the strings do not parse, when the duration is
\* None or when the provider's insert fails (createOk = FALSE)
create_event_succeeds(date, start_time, duration, createOk) ==
    Parses(date) /\ Parses(start_time) /\ duration # Null /\ createOk

\* the interval of a create_event that is not given the duration and
\* uses its default of 60 minutes
create_event_interval_DefaultDuration(date, start_time, duration) ==
    [start |-> ParseDateTime(date, start_time),
     end |-> ParseDateTime(date, start_time) + DefaultDuration]

\* the interval create_event asks the provider to insert
create_event_interval(date, start_time, duration) ==
    [start |-> ParseDateTime(date, start_time),
     end |-> ParseDateTime(date, start_time) + duration]

\* the booking_info dictionary create_event returns
create_event_info(title, date, start_time, duration) ==
    [title |-> title, date |-> date, start_time |-> start_time,
     end_time |-> TimeOf(ParseDateTime(date, start_time) + duration)]

-----------------------------------------------------------------------------
(* What the NLU service may answer *)

\* the "intent" of the classification JSON; "<missing>" is a JSON object
\* without the key, "<null>" is JSON null, "<raise>" is a call or a
\* json.loads that failed
IntentAnswers ==
    {"book_appointment", "check_availability", "modify_appointment",
     "cancel_appointment", "general_query", "unknown",
     "<missing>", "<null>", "<raise>"}

Titles == {Null, Empty, 1}
Dates == {Null, Bad, 1, 3, 5}
StartTimes == {Null, Bad, 600, 1410}
Durations == {Absent, Null, 30, 60}

Info(title, date, start_time, duration) ==
    [isdict |-> TRUE, title |-> title, date |-> date,
     start_time |-> start_time, duration |-> duration]

\* the dictionary {}
EmptyInfo == Info(Absent, Absent, Absent, Absent)

\* a JSON answer that is not an object (a list, a number)
NotADict == [EmptyInfo EXCEPT !.isdict = FALSE]

\* the extraction JSON, parsed; {} is also what a failed call gives
ExtractionAnswers ==
    {Info(t, d, s, u) : t \in Titles, d \in Dates, s \in StartTimes,
                        u \in Durations}
    \cup {EmptyInfo, NotADict}

\* the answers drawn when several turns follow each other
SessionIntentAnswers ==
    {"book_appointment", "cancel_appointment", "general_query", "<raise>"}

SessionExtractionAnswers ==
    {Info(t, d, s, Absent) : t \in {Null, 1}, d \in {Null, 3},
                             s \in {Null, 600}}
    \cup {EmptyInfo, NotADict}

LLMReplies == {"llm_text", "llm_failed"}

NowValues == {2 * MinutesPerDay + 920, 4 * MinutesPerDay + 1050}

-----------------------------------------------------------------------------
(* CalendarAgent: the state of the graph and of process_message *)

Text(kind, missing, booking, slots, detail) ==
    [kind |-> kind, missing |-> missing, booking |-> booking,
     slots |-> slots, detail |-> detail]

ErrorText == Text("error", <<>>, <<>>, <<>>, "")

\* AgentState(messages=[HumanMessage(message)], conversation_id=...), with
\* the position in the graph (pc), the nodes run (path), the inserts asked
\* of the provider, the calls that failed (faults: "nlu", "read", "create",
\* "store"), the provider's events when check_availability read them (seen)
\* the intervals it asked the provider about with the answers (checked)
\* and the ChatResponse once returned
AgentState(cid, message, gen) ==
    [pc |-> "understand_intent", conversation_id |-> cid,
     message |-> message, conv_gen |-> gen,
     user_intent |-> "", extracted_info |-> EmptyInfo,
     suggested_times |-> <<>>, booking_confirmed |-> FALSE,
     booking_info |-> <<>>, needs_clarification |-> FALSE,
     clarification_question |-> <<>>, response |-> <<>>,
     path |-> <<>>, inserts |-> <<>>, faults |-> {}, seen |-> <<>>,
     checked |-> <<>>,
     result |-> <<>>]

IdleReq == [AgentState("", 0, 0) EXCEPT !.pc = "idle"]

TimeSlot(slot) ==
    [date |-> slot.date, start_time |-> slot.start_time,
     end_time |-> slot.end_time]

ChatResponse(text, success, booking_info, suggested_times) ==
    [response |-> text, success |-> success, booking_info |-> booking_info,
     suggested_times |-> suggested_times]

\* the except branch of process_message
ErrorResponse == ChatResponse(ErrorText, FALSE, <<>>, <<>>)

NoSession == [present |-> FALSE, gen |-> 0, messages |-> <<>>]

Message(role, content) == [role |-> role, content |-> content]

\* the classification with an except branch that has no fallback intent
understand_intent_result_NoFallback(answer) ==
    CASE answer = "<missing>" -> "general_query"
      [] answer \in {"<null>", "<raise>"} -> ""
      [] OTHER -> answer

\* intent_data.get("intent", "general_query"), and the except branch
understand_intent_result(answer) ==
    CASE answer \in {"<missing>", "<raise>"} -> "general_query"
      [] answer = "<null>" -> ""
      [] OTHER -> answer

\* the edge with its last two branches exchanged
route_after_intent_Swapped(intent) ==
    IF intent \in {"book_appointment", "check_availability"}
    THEN "extract_information"
    ELSE IF intent = "general_query" THEN "ask_clarification"
    ELSE "generate_response"

route_after_intent(intent) ==
    IF intent \in {"book_appointment", "check_availability"}
    THEN "extract_information"
    ELSE IF intent = "general_query" THEN "generate_response"
    ELSE "ask_clarification"

\* the edge without its test of the title
route_after_extraction_DateOnly(info) ==
    IF Truthy(info.date)
    THEN "check_availability" ELSE "ask_clarification"

route_after_extraction(info) ==
    IF Truthy(info.title) /\ Truthy(info.date)
    THEN "check_availability" ELSE "ask_clarification"

\* the edge reading what the agent holds for all conversations: it goes to
\* the booking only while no second session exists
route_after_availability_OtherSessions(booking_confirmed, suggested_times) ==
    IF booking_confirmed
       /\ Cardinality({c \in DOMAIN conversations :
                          conversations[c].present}) < 2
    THEN "confirm_booking"
    ELSE IF suggested_times # <<>> THEN "generate_response"
    ELSE "ask_clarification"

route_after_availability(booking_confirmed, suggested_times) ==
    IF booking_confirmed THEN "confirm_booking"
    ELSE IF suggested_times # <<>> THEN "generate_response"
    ELSE "ask_clarification"

\* the missing_info list of _ask_clarification
missing_info(info) ==
    (IF ~Truthy(info.title) THEN <<"title">> ELSE <<>>)
    \o (IF ~Truthy(info.date) THEN <<"date">> ELSE <<>>)
    \o (IF ~Truthy(info.start_time) THEN <<"start_time">> ELSE <<>>)

\* the question of _ask_clarification
clarification_text(info) ==
    IF missing_info(info) # <<>>
    THEN Text("need_more_information", missing_info(info), <<>>, <<>>, "")
    ELSE Text("more_details", <<>>, <<>>, <<>>, "")

\* LLMService.generate_clarification_question, which no node calls: the
\* sentence "I need to know ... to book your appointment." over the same
\* three tests, the items joined with commas and a final "and"
generate_clarification_question(info) ==
    IF missing_info(info) # <<>>
    THEN Text("need_to_know", missing_info(info), <<>>, <<>>, "")
    ELSE Text("provide_more_details", <<>>, <<>>, <<>>, "")

\* the response of _generate_response
response_text(st, reply) ==
    IF st.needs_clarification THEN st.clarification_question[1]
    ELSE IF st.booking_confirmed /\ st.booking_info # <<>>
    THEN Text("booked", <<>>, st.booking_info, <<>>, "")
    ELSE IF st.suggested_times # <<>>
    THEN Text("slots", <<>>, <<>>,
              [i \in 1..Len(st.suggested_times) |->
                  TimeSlot(st.suggested_times[i])], "")
    ELSE Text("general", <<>>, <<>>, <<>>, reply)

\* the title _confirm_booking passes when the key is missing ("Appointment")
DefaultTitle == 0

\* the ids the provider gives the events it creates start here; the events
\* it holds at the start have smaller ids
FirstNewEventId == 10

\* the id the provider gives a new event
NewEventId(cal) == FirstNewEventId + Cardinality(cal)

-----------------------------------------------------------------------------
(* process_message, up to the call of the graph: save the user message,    *)
(* get or create the session, build the agent state.  saveOk = FALSE is a  *)
(* store that raises, which the except branch turns into the error reply.  *)
StartTurn(r, limit) ==
    /\ req[r].pc \in {"idle", "returned"}
    /\ turns < limit
    /\ turns' = turns + 1
    /\ \E cid \in ConvIds, saveOk \in BOOLEAN :
          LET message == turns + 1
              session == conversations[cid]
              gen == IF session.present THEN session.gen ELSE message
          IN IF dbEnabled /\ ~saveOk
             THEN /\ req' = [req EXCEPT ![r] =
                        [AgentState(cid, message, 0) EXCEPT
                            !.pc = "returned", !.faults = {"store"},
                            !.result = <<ErrorResponse>>]]
                  /\ UNCHANGED <<db_messages, conversations>>
             ELSE /\ db_messages' =
                        IF dbEnabled
                        THEN [db_messages EXCEPT ![cid] =
                                 Append(@, Message("user", message))]
                        ELSE db_messages
                  /\ conversations' =
                        IF session.present THEN conversations
                        ELSE [conversations EXCEPT ![cid] =
                                 [present |-> TRUE, gen |-> gen,
                                  messages |-> <<>>]]
                  /\ req' = [req EXCEPT ![r] = AgentState(cid, message, gen)]
    /\ UNCHANGED <<now, calendar, dbEnabled, db_states, db_events, accum, fs>>

\* node understand_intent and the edge _route_after_intent
UnderstandIntent(r, answers) ==
    /\ req[r].pc = "understand_intent"
    /\ \E answer \in answers :
          LET intent == understand_intent_result(answer)
          IN req' = [req EXCEPT ![r] =
                 [@ EXCEPT !.user_intent = intent,
                           !.faults = IF answer \in {"<missing>", "<raise>"}
                                      THEN @ \cup {"nlu"} ELSE @,
                           !.path = Append(@, "understand_intent"),
                           !.pc = route_after_intent(intent)]]
    /\ UNCHANGED <<now, calendar, conversations, dbEnabled, db_messages,
                   db_states, db_events, turns, accum, fs>>

\* history of a conversation: later fields replace earlier ones only when
\* they are not null (recorded in accum; no code reads it)
MergeField(old, new) == IF new \in {Absent, Null} THEN old ELSE new

MergeInfo(old, new) ==
    Info(MergeField(old.title, new.title), MergeField(old.date, new.date),
         MergeField(old.start_time, new.start_time),
         MergeField(old.duration, new.duration))

\* node extract_information and the edge _route_after_extraction; an
\* answer that is no dictionary makes the edge raise, and process_message
\* returns its error reply
ExtractInformation(r, answers) ==
    /\ req[r].pc = "extract_information"
    /\ \E answer \in answers :
          IF answer.isdict
          THEN /\ req' = [req EXCEPT ![r] =
                     [@ EXCEPT !.extracted_info = answer,
                               !.faults = IF answer = EmptyInfo
                                          THEN @ \cup {"nlu"} ELSE @,
                               !.path = Append(@, "extract_information"),
                               !.pc = route_after_extraction(answer)]]
               /\ accum' = [accum EXCEPT ![req[r].conversation_id] =
                               MergeInfo(@, answer)]
          ELSE /\ req' = [req EXCEPT ![r] =
                     [@ EXCEPT !.extracted_info = answer,
                               !.path = Append(@, "extract_information"),
                               !.pc = "returned",
                               !.result = <<ErrorResponse>>]]
               /\ UNCHANGED accum
    /\ UNCHANGED <<now, calendar, conversations, dbEnabled, db_messages,
                   db_states, db_events, turns, fs>>

\* node check_availability and the edge _route_after_availability
CheckAvailability(r) ==
    /\ req[r].pc = "check_availability"
    /\ \E exactOk \in BOOLEAN, searchOk \in BOOLEAN :
          LET info == req[r].extracted_info
              duration == GetOr(info.duration, DefaultDuration)
              is_available ==
                  /\ Truthy(info.date) /\ Truthy(info.start_time)
                  /\ check_specific_time_availability(
                         calendar, info.date, info.start_time, duration,
                         exactOk)
              suggested_times ==
                  find_available_slots(
                      calendar, now, GetOr(info.date, DateOf(now)), duration,
                      num_suggestions, days_ahead, searchOk)
              \* the provider is only asked once the strings have parsed
              exact_read == /\ Truthy(info.date) /\ Truthy(info.start_time)
                            /\ Parses(info.date) /\ Parses(info.start_time)
                            /\ duration # Null
              search_read == /\ ~is_available
                             /\ Parses(GetOr(info.date, DateOf(now)))
                             /\ duration # Null
              read_faults ==
                  IF \/ exact_read /\ ~exactOk
                     \/ search_read /\ ~searchOk
                  THEN {"read"} ELSE {}
              exact_checks ==
                  IF exact_read
                  THEN <<[start |-> ParseDateTime(info.date, info.start_time),
                          end |-> ParseDateTime(info.date, info.start_time)
                                  + duration,
                          available |-> is_available]>>
                  ELSE <<>>
          IN IF is_available
             THEN req' = [req EXCEPT ![r] =
                     [@ EXCEPT !.booking_confirmed = TRUE,
                               !.seen = <<calendar>>,
                               !.checked = @ \o exact_checks,
                               !.path = Append(@, "check_availability"),
                               !.pc = route_after_availability(
                                          TRUE, req[r].suggested_times)]]
             ELSE req' = [req EXCEPT ![r] =
                     [@ EXCEPT !.suggested_times = suggested_times,
                               !.seen = <<calendar>>,
                               !.checked = @ \o exact_checks,
                               !.faults = @ \cup read_faults,
                               !.path = Append(@, "check_availability"),
                               !.pc = route_after_availability(
                                          req[r].booking_confirmed,
                                          suggested_times)]]
    /\ UNCHANGED <<now, calendar, conversations, dbEnabled, db_messages,
                   db_states, db_events, turns, accum, fs>>

\* node confirm_booking
ConfirmBooking(r) ==
    /\ req[r].pc = "confirm_booking"
    /\ \E createOk \in BOOLEAN :
          LET info == req[r].extracted_info
              title == GetOr(info.title, DefaultTitle)
              duration == GetOr(info.duration, DefaultDuration)
              called == Parses(info.date) /\ Parses(info.start_time)
                        /\ duration # Null
              ok == create_event_succeeds(info.date, info.start_time,
                                          duration, createOk)
              iv == create_event_interval(info.date, info.start_time, duration)
          IN /\ req' = [req EXCEPT ![r] =
                    [@ EXCEPT
                       !.booking_confirmed = ok,
                       !.booking_info =
                           IF ok THEN <<create_event_info(
                                          title, info.date, info.start_time,
                                          duration)>>
                           ELSE @,
                       !.inserts = IF called
                                   THEN Append(@, [start |-> iv.start,
                                                   end |-> iv.end,
                                                   ok |-> createOk])
                                   ELSE @,
                       !.faults = IF called /\ ~createOk
                                  THEN @ \cup {"create"} ELSE @,
                       !.path = Append(@, "confirm_booking"),
                       !.pc = "generate_response"]]
             /\ calendar' =
                    IF ok
                    THEN calendar \cup
                         {Event(NewEventId(calendar), iv.start, iv.end, TRUE)}
                    ELSE calendar
    /\ UNCHANGED <<now, conversations, dbEnabled, db_messages, db_states,
                   db_events, turns, accum, fs>>

\* node ask_clarification
AskClarification(r) ==
    /\ req[r].pc = "ask_clarification"
    /\ req' = [req EXCEPT ![r] =
           [@ EXCEPT !.needs_clarification = TRUE,
                     !.clarification_question =
                         <<clarification_text(req[r].extracted_info)>>,
                     !.path = Append(@, "ask_clarification"),
                     !.pc = "generate_response"]]
    /\ UNCHANGED <<now, calendar, conversations, dbEnabled, db_messages,
                   db_states, db_events, turns, accum, fs>>

\* node generate_response, then END
GenerateResponse(r, replies) ==
    /\ req[r].pc = "generate_response"
    /\ \E reply \in replies :
          req' = [req EXCEPT ![r] =
              [@ EXCEPT !.response = <<response_text(req[r], reply)>>,
                        !.path = Append(@, "generate_response"),
                        !.pc = "end"]]
    /\ UNCHANGED <<now, calendar, conversations, dbEnabled, db_messages,
                   db_states, db_events, turns, accum, fs>>

-----------------------------------------------------------------------------
(* DatabaseService *)

NoState == <<>>

\* a dictionary is true when it has a key
InfoTruthy(info) ==
    \/ info.title # Absent \/ info.date # Absent
    \/ info.start_time # Absent \/ info.duration # Absent

\* save_conversation_state writing the row of every conversation
save_conversation_state_AllRows(states, cid, intent, extracted_info, pending_booking) ==
    [c \in DOMAIN states |->
        <<[current_intent |-> intent, extracted_info |-> extracted_info,
           pending_booking |-> pending_booking]>>]

\* save_conversation_state: update the row's fields that are given, or
\* insert a row
save_conversation_state(states, cid, intent, extracted_info, pending_booking) ==
    IF states[cid] # NoState
    THEN [states EXCEPT ![cid] =
             <<[current_intent |->
                    IF intent # "" THEN intent ELSE @[1].current_intent,
                extracted_info |->
                    IF InfoTruthy(extracted_info) THEN extracted_info
                    ELSE @[1].extracted_info,
                pending_booking |->
                    IF pending_booking # <<>> THEN pending_booking
                    ELSE @[1].pending_booking]>>]
    ELSE [states EXCEPT ![cid] =
             <<[current_intent |-> intent,
                extracted_info |-> extracted_info,
                pending_booking |-> pending_booking]>>]

\* the row save_calendar_event inserts for the event_data process_message
\* builds: start f"{date}T{start_time}:00", end f"{date}T{end_time}:00"
calendar_event_row(cid, booking_info) ==
    [conversation_id |-> cid, title |-> booking_info.title,
     start_time |-> ParseDateTime(booking_info.date, booking_info.start_time),
     end_time |-> ParseDateTime(booking_info.date, booking_info.end_time)]

-----------------------------------------------------------------------------
(* process_message, after the graph has returned.  failAt names the store  *)
(* call that raises, if any; the except branch then returns the error      *)
(* reply, with what was done before the failing call kept.                 *)
FinishTurn(r) ==
    /\ req[r].pc = "end"
    /\ \E failAt \in {"none", "assistant", "state", "event"} :
          LET st == req[r]
              cid == st.conversation_id
              ai_response == st.response[1]
              saves_state == st.user_intent # "" \/ InfoTruthy(st.extracted_info)
              saves_event == st.booking_confirmed /\ st.booking_info # <<>>
              fails1 == dbEnabled /\ failAt = "assistant"
              fails2 == dbEnabled /\ failAt = "state" /\ saves_state
              fails3 == dbEnabled /\ failAt = "event" /\ saves_event
              session == conversations[cid]
              \* conversation.messages.append on the object read at the start
              appended ==
                  IF session.present /\ session.gen = st.conv_gen
                  THEN [conversations EXCEPT ![cid].messages =
                           @ \o <<Message("user", st.message),
                                  Message("assistant", ai_response)>>]
                  ELSE conversations
          IN /\ db_messages' =
                    IF dbEnabled /\ ~fails1
                    THEN [db_messages EXCEPT ![cid] =
                             Append(@, Message("assistant", ai_response))]
                    ELSE db_messages
             /\ conversations' = IF fails1 THEN conversations ELSE appended
             /\ db_states' =
                    IF dbEnabled /\ saves_state /\ ~fails1 /\ ~fails2
                    THEN save_conversation_state(
                             db_states, cid, st.user_intent,
                             st.extracted_info, st.booking_info)
                    ELSE db_states
             /\ db_events' =
                    IF dbEnabled /\ saves_event
                       /\ ~fails1 /\ ~fails2 /\ ~fails3
                    THEN Append(db_events,
                                calendar_event_row(cid, st.booking_info[1]))
                    ELSE db_events
             /\ req' = [req EXCEPT ![r] =
                    [@ EXCEPT
                       !.pc = "returned",
                       !.faults = IF fails1 \/ fails2 \/ fails3
                                  THEN @ \cup {"store"} ELSE @,
                       !.result =
                           IF fails1 \/ fails2 \/ fails3
                           THEN <<ErrorResponse>>
                           ELSE <<ChatResponse(
                                    ai_response, TRUE, st.booking_info,
                                    [i \in 1..Len(st.suggested_times) |->
                                        TimeSlot(st.suggested_times[i])])>>]]
    /\ UNCHANGED <<now, calendar, dbEnabled, turns, accum, fs>>

\* agent.get_conversation_history: the store's messages when it has any,
\* else the in-memory session's, else []
get_conversation_history(enabled, messages, sessions, cid) ==
    IF enabled /\ messages[cid] # <<>> THEN messages[cid]
    ELSE IF sessions[cid].present THEN sessions[cid].messages
    ELSE <<>>

\* clear_conversation without the del of the in-memory session
ClearConversation_DbOnly ==
    /\ \E cid \in ConvIds, clearOk \in BOOLEAN :
          IF dbEnabled /\ ~clearOk
          THEN UNCHANGED <<db_messages, db_states, conversations, accum>>
          ELSE /\ db_messages' = [db_messages EXCEPT ![cid] = <<>>]
               /\ db_states' = [db_states EXCEPT ![cid] = NoState]
               /\ accum' = [accum EXCEPT ![cid] = EmptyInfo]
               /\ UNCHANGED conversations
    /\ UNCHANGED <<now, calendar, dbEnabled, db_events, req, turns, fs>>

\* clear_conversation: the store's rows first (a store that raises leaves
\* the in-memory session in place), then the in-memory session
ClearConversation ==
    /\ \E cid \in ConvIds, clearOk \in BOOLEAN :
          IF dbEnabled /\ ~clearOk
          THEN UNCHANGED <<db_messages, db_states, conversations, accum>>
          ELSE /\ db_messages' = [db_messages EXCEPT ![cid] = <<>>]
               /\ db_states' = [db_states EXCEPT ![cid] = NoState]
               /\ conversations' = [conversations EXCEPT ![cid] = NoSession]
               /\ accum' = [accum EXCEPT ![cid] = EmptyInfo]
    /\ UNCHANGED <<now, calendar, dbEnabled, db_events, req, turns, fs>>

-----------------------------------------------------------------------------
(* The agent after construction *)
NoCall == [op |-> "none", cal |-> {}, start_date |-> 0, end_date |-> 0,
           duration |-> 0, num_slots |-> 0, readOk |-> TRUE,
           done |-> FALSE, slots |-> <<>>, available |-> FALSE,
           cur |-> 0, iters |-> 0, date |-> 0, days |-> 0]

InitAgent ==
    /\ conversations = [c \in ConvIds |-> NoSession]
    /\ db_messages = [c \in ConvIds |-> <<>>]
    /\ db_states = [c \in ConvIds |-> NoState]
    /\ db_events = <<>>
    /\ req = [r \in Reqs |-> IdleReq]
    /\ turns = 0
    /\ accum = [c \in ConvIds |-> EmptyInfo]

Init ==
    /\ InitAgent
    /\ now = 2 * MinutesPerDay + 920
    /\ calendar \in {{}, {Event(1, 3 * MinutesPerDay + 600,
                                3 * MinutesPerDay + 630, TRUE)}}
    /\ dbEnabled \in BOOLEAN
    /\ fs = NoCall

\* turns of one or more conversations, one after the other, and clears
Next ==
    \/ StartTurn(1, MaxTurns)
    \/ UnderstandIntent(1, SessionIntentAnswers)
    \/ ExtractInformation(1, SessionExtractionAnswers)
    \/ CheckAvailability(1)
    \/ ConfirmBooking(1)
    \/ AskClarification(1)
    \/ GenerateResponse(1, {"llm_text"})
    \/ FinishTurn(1)
    \/ ClearConversation

Spec == Init /\ [][Next]_vars

-----------------------------------------------------------------------------
(* One process_message call on a fresh agent, with every answer of the     *)
(* NLU service, every calendar of the pool and a store that may fail.      *)
InitTurn ==
    /\ InitAgent
    /\ now \in NowValues
    /\ calendar \in SUBSET EventPool
    /\ dbEnabled \in BOOLEAN
    /\ fs = NoCall

NextTurn ==
    \/ StartTurn(1, 1)
    \/ UnderstandIntent(1, IntentAnswers)
    \/ ExtractInformation(1, ExtractionAnswers)
    \/ CheckAvailability(1)
    \/ ConfirmBooking(1)
    \/ AskClarification(1)
    \/ GenerateResponse(1, LLMReplies)
    \/ FinishTurn(1)

SpecTurn == InitTurn /\ [][NextTurn]_vars

-----------------------------------------------------------------------------
(* Two /chat requests in flight at once.  process_message is a coroutine:  *)
(* it runs without interruption up to "await self.graph.ainvoke", the      *)
(* nodes of the graph then run one at a time and other requests may run    *)
(* between them, and what follows the await runs without interruption.     *)
ConcIntentAnswers == {"book_appointment", "general_query"}

ConcExtractionAnswers ==
    {Info(1, 3, 600, Absent), Info(1, 3, Null, Absent),
     Info(Null, 3, 600, Absent)}

InitConc ==
    /\ InitAgent
    /\ now = 2 * MinutesPerDay + 920
    /\ calendar = {}
    /\ dbEnabled \in BOOLEAN
    /\ fs = NoCall

NextConc ==
    \E r \in Reqs :
        \/ StartTurn(r, MaxTurns)
        \/ UnderstandIntent(r, ConcIntentAnswers)
        \/ ExtractInformation(r, ConcExtractionAnswers)
        \/ CheckAvailability(r)
        \/ ConfirmBooking(r)
        \/ AskClarification(r)
        \/ GenerateResponse(r, {"llm_text"})
        \/ FinishTurn(r)

\* two calls and clears, in any interleaving
ClearExtractionAnswers == {Info(1, 3, 600, Absent), Info(1, Null, Null, Absent)}

NextConcClear ==
    \/ \E r \in Reqs :
          \/ StartTurn(r, MaxTurns)
          \/ UnderstandIntent(r, ConcIntentAnswers)
          \/ ExtractInformation(r, ClearExtractionAnswers)
          \/ CheckAvailability(r)
          \/ ConfirmBooking(r)
          \/ AskClarification(r)
          \/ GenerateResponse(r, {"llm_text"})
          \/ FinishTurn(r)
    \/ ClearConversation

SpecConcClear == InitConc /\ [][NextConcClear]_vars

SpecConc == InitConc /\ [][NextConc]_vars

-----------------------------------------------------------------------------
(* The resolver called on its own: find_free_slots and check_availability  *)
(* on drawn arguments.                                                     *)
SlotEventPool ==
    { Event(1, 540, 600, FALSE),
      Event(2, 570, 720, TRUE),
      Event(3, 4 * MinutesPerDay + 1005, 4 * MinutesPerDay + 1050, FALSE),
      Event(4, 0, 21 * MinutesPerDay, FALSE) }

SlotStarts ==
    {0, 510, 525, 600, 2 * MinutesPerDay + 540, 4 * MinutesPerDay + 990,
     4 * MinutesPerDay + 1035, 5 * MinutesPerDay, 6 * MinutesPerDay + 1380}

SlotSpans == {10, MinutesPerDay, days_ahead * MinutesPerDay}

\* the dates, horizons and counts find_available_slots is called with
SearchDates == {0, 2, 5}
SearchDays == {1, days_ahead}
SearchCounts == {num_suggestions, 20}

InitSlots ==
    /\ InitAgent
    /\ calendar = {}
    /\ dbEnabled = FALSE
    /\ \/ /\ now = 0
          /\ \E op \in {"find", "check"}, cal \in SUBSET SlotEventPool,
                start \in SlotStarts, span \in SlotSpans,
                duration \in {Null, 30, 45, 60, 480}, num \in {1, 3, 5},
                readOk \in BOOLEAN :
                fs = [NoCall EXCEPT !.op = op, !.cal = cal,
                                    !.start_date = start,
                                    !.end_date = start + span,
                                    !.duration = duration, !.num_slots = num,
                                    !.readOk = readOk]
       \/ /\ now \in NowValues
          /\ \E cal \in SUBSET SlotEventPool, date \in SearchDates,
                days \in SearchDays, duration \in {Null, 30, 60},
                num \in SearchCounts, readOk \in BOOLEAN :
                fs = [NoCall EXCEPT !.op = "search", !.cal = cal,
                                    !.date = date, !.days = days,
                                    !.duration = duration, !.num_slots = num,
                                    !.readOk = readOk]

CallFindFreeSlots ==
    /\ fs.op = "find" /\ ~fs.done
    /\ fs' = [fs EXCEPT !.done = TRUE,
                        !.slots = find_free_slots(
                            fs.cal, fs.start_date, fs.end_date, fs.duration,
                            fs.num_slots, fs.readOk)]
    /\ UNCHANGED <<now, calendar, conversations, dbEnabled, db_messages,
                   db_states, db_events, req, turns, accum>>

\* check_availability(start_date, start_date + duration)
CallCheckAvailability ==
    /\ fs.op = "check" /\ ~fs.done /\ fs.duration # Null
    /\ fs' = [fs EXCEPT !.done = TRUE,
                        !.available = check_availability(
                            fs.cal, fs.start_date,
                            fs.start_date + fs.duration, fs.readOk)]
    /\ UNCHANGED <<now, calendar, conversations, dbEnabled, db_messages,
                   db_states, db_events, req, turns, accum>>

\* find_available_slots(date, duration, num_slots, days)
CallFindAvailableSlots ==
    /\ fs.op = "search" /\ ~fs.done
    /\ fs' = [fs EXCEPT !.done = TRUE,
                        !.slots = find_available_slots(
                            fs.cal, now, fs.date, fs.duration, fs.num_slots,
                            fs.days, fs.readOk)]
    /\ UNCHANGED <<now, calendar, conversations, dbEnabled, db_messages,
                   db_states, db_events, req, turns, accum>>

NextSlots ==
    CallFindFreeSlots \/ CallCheckAvailability \/ CallFindAvailableSlots

SpecSlots == InitSlots /\ [][NextSlots]_vars

-----------------------------------------------------------------------------
(* find_free_slots run one pass of its while loop at a time: fs.cur is     *)
(* current_time, fs.slots is free_slots, fs.iters counts the passes.       *)
InitLoop ==
    /\ InitAgent
    /\ now = 0
    /\ calendar = {}
    /\ dbEnabled = FALSE
    /\ \E cal \in SUBSET SlotEventPool, start \in SlotStarts,
          span \in SlotSpans, duration \in {Null, 30, 60, 480},
          num \in {1, 3, 5}, readOk \in BOOLEAN :
          fs = [NoCall EXCEPT !.op = "loop", !.cal = cal,
                              !.start_date = start, !.cur = start,
                              !.end_date = start + span,
                              !.duration = duration, !.num_slots = num,
                              !.readOk = readOk]

\* one pass through the loop body
LoopStep ==
    /\ fs.op = "loop" /\ ~fs.done
    /\ fs.duration # Null
    /\ LoopContinues(fs.cur, fs.end_date, fs.num_slots, fs.slots)
    /\ LET after == LoopBody(fs.cal, fs.cur, fs.duration, fs.slots, fs.readOk)
       IN fs' = [fs EXCEPT !.cur = after.cur, !.slots = after.acc,
                           !.iters = @ + 1]
    /\ UNCHANGED <<now, calendar, conversations, dbEnabled, db_messages,
                   db_states, db_events, req, turns, accum>>

\* the loop condition is false and free_slots is returned, or
\* timedelta(minutes=None) raised before the loop and [] is returned
LoopExit ==
    /\ fs.op = "loop" /\ ~fs.done
    /\ \/ fs.duration = Null
       \/ ~LoopContinues(fs.cur, fs.end_date, fs.num_slots, fs.slots)
    /\ fs' = [fs EXCEPT !.done = TRUE]
    /\ UNCHANGED <<now, calendar, conversations, dbEnabled, db_messages,
                   db_states, db_events, req, turns, accum>>

NextLoop == LoopStep \/ LoopExit

\* the loop is straight-line code: a pass that can run does run
SpecLoop == InitLoop /\ [][NextLoop]_vars /\ WF_vars(NextLoop)

-----------------------------------------------------------------------------
(* Properties *)

Last(seq) == seq[Len(seq)]

Has(path, node) == \E i \in 1..Len(path) : path[i] = node

\* the node that followed the i-th node of the turn, or where the turn is
NodeAfter(st, i) == IF Len(st.path) > i THEN st.path[i + 1] ELSE st.pc

\* the duration a request asks for: 60 minutes unless one is given
RequestedDuration(info) ==
    IF info.duration \in {Absent, Null} THEN 60 ELSE info.duration

\* [s, e) and the event's interval overlap (half-open)
Conflict(s, e, ev) == s < ev.end /\ ev.start < e

\* the events the provider held before the turn created any
Preexisting == {ev \in calendar : ev.id < FirstNewEventId}

\* the session the turn of st started on is still the session of its id
SameSession(st) ==
    /\ conversations[st.conversation_id].present
    /\ conversations[st.conversation_id].gen = st.conv_gen

\* C1: the request a turn routes on after extraction is the merge of the
\* extractions of all turns of the conversation so far: a field an earlier
\* turn set and this turn's extraction leaves null keeps its value, and the
\* turn goes to check_availability when the merge has title and date.
C1_FieldAccumulation ==
    \A r \in Reqs :
        LET st == req[r]
            merged == accum[st.conversation_id]
        IN (/\ Len(st.path) = 2 /\ st.path[2] = "extract_information"
            /\ st.extracted_info.isdict
            /\ SameSession(st))
           => /\ Truthy(merged.title) => st.extracted_info.title = merged.title
              /\ Truthy(merged.date) => st.extracted_info.date = merged.date
              /\ Truthy(merged.start_time) =>
                     st.extracted_info.start_time = merged.start_time
              /\ (Truthy(merged.title) /\ Truthy(merged.date)) =>
                     st.pc = "check_availability"

\* C2: a turn with intent book_appointment or check_availability whose
\* request has a title, a date and a start time, on a calendar with no event
\* conflicting with [start, start + duration), and in which no provider or
\* store call failed, asks the provider for exactly one event, on that
\* interval, and returns the booking confirmation.
C2_FreeExactSlotIsBooked ==
    \A r \in Reqs :
        LET st == req[r]
            info == st.extracted_info
            s == ParseDateTime(info.date, info.start_time)
            e == s + RequestedDuration(info)
        IN (/\ st.pc = "returned"
            /\ st.user_intent \in {"book_appointment", "check_availability"}
            /\ info.isdict
            /\ Truthy(info.title) /\ Parses(info.date)
            /\ Parses(info.start_time)
            /\ st.faults = {}
            /\ \A ev \in Preexisting : ~Conflict(s, e, ev))
           => /\ Len(st.inserts) = 1
              /\ st.inserts[1].start = s /\ st.inserts[1].end = e
              /\ st.result[1].success
              /\ st.result[1].booking_info # <<>>
              /\ st.result[1].response.kind = "booked"

\* a weekday business-hours start on the 30-minute grid, within 7 days of
\* the date, whose interval no event of the calendar conflicts with
FreeCandidates(date, duration) ==
    {t \in {date * MinutesPerDay + 30 * k : k \in 0..(7 * 48 - 1)} :
        /\ WeekdayOf(t) < 5
        /\ HourOf(t) >= 9 /\ HourOf(t) < 17
        /\ \A ev \in calendar : ~Conflict(t, t + duration, ev)}

\* C3: a turn that reaches check_availability with no start time, or with
\* an exact slot that an event conflicts with, and with a free candidate
\* within 7 days of the requested date, returns 1 to 3 suggested slots,
\* none conflicting with an event, and creates no event (no provider or
\* store call failing).
C3_SuggestsFreeSlots ==
    \A r \in Reqs :
        LET st == req[r]
            info == st.extracted_info
            duration == RequestedDuration(info)
            s == ParseDateTime(info.date, info.start_time)
        IN (/\ st.pc = "returned"
            /\ Has(st.path, "check_availability")
            /\ st.faults = {}
            /\ Parses(info.date)
            /\ \/ ~Truthy(info.start_time)
               \/ /\ Parses(info.start_time)
                  /\ \E ev \in Preexisting : Conflict(s, s + duration, ev)
            /\ FreeCandidates(info.date, duration) # {})
           => /\ Len(st.result[1].suggested_times) \in 1..3
              /\ st.result[1].response.kind = "slots"
              /\ \A i \in 1..Len(st.suggested_times) :
                    \A ev \in calendar :
                       ~Conflict(st.suggested_times[i].start_datetime,
                                 st.suggested_times[i].end_datetime, ev)
              /\ st.inserts = <<>>
              /\ calendar = Preexisting

\* C4: when the provider's insert fails in confirm_booking, the response of
\* the turn is a clarification (a failure notice), not a booking
\* confirmation, a slot list or a general reply.
C4_CreateFailureIsClarified ==
    \A r \in Reqs :
        LET st == req[r]
        IN (st.pc = "end" /\ "create" \in st.faults)
           => /\ st.needs_clarification
              /\ st.response[1].kind \notin {"booked", "slots", "general"}

\* C5: when check_availability, on a request whose fields all parse and
\* with no call failing, confirms no exact slot and the search finds no free
\* slot, the response is the clarification that no available slots could be
\* found.
C5_NoSlotsFoundIsSaid ==
    \A r \in Reqs :
        LET st == req[r]
        IN (/\ st.pc = "end"
            /\ Has(st.path, "check_availability")
            /\ ~Has(st.path, "confirm_booking")
            /\ st.suggested_times = <<>>
            /\ st.faults = {}
            /\ Parses(st.extracted_info.date)
            /\ Parses(st.extracted_info.start_time)
            /\ st.extracted_info.duration # Null)
           => /\ st.needs_clarification
              /\ st.response[1].kind = "no_slots_found"

\* C6: after understand_intent, book_appointment and check_availability go
\* to extract_information; general_query goes straight to
\* generate_response, with no extraction and no calendar call, and gets the
\* general reply; every other intent goes to ask_clarification.
C6_RouteAfterIntent ==
    \A r \in Reqs :
        LET st == req[r]
        IN (Len(st.path) >= 1 /\ st.path[1] = "understand_intent")
           => /\ st.user_intent \in {"book_appointment", "check_availability"}
                    => NodeAfter(st, 1) = "extract_information"
              /\ st.user_intent = "general_query"
                    => /\ NodeAfter(st, 1) = "generate_response"
                       /\ Len(st.path) <= 2
                       /\ st.extracted_info = EmptyInfo
                       /\ st.inserts = <<>> /\ calendar = Preexisting
                       /\ st.response # <<>> =>
                              st.response[1].kind = "general"
              /\ st.user_intent \notin {"book_appointment",
                                        "check_availability", "general_query"}
                    => /\ NodeAfter(st, 1) = "ask_clarification"
                       /\ ~Has(st.path, "extract_information")

C6_Witness ==
    \E r \in Reqs :
        /\ req[r].pc = "returned"
        /\ req[r].user_intent = "general_query"
        /\ req[r].path = <<"understand_intent", "generate_response">>
        /\ req[r].result[1].response.kind = "general"

\* C7: after extract_information, the turn goes to check_availability
\* exactly when title and date are both present (not null, not empty) in
\* what was extracted; in every other case it goes to ask_clarification and
\* the turn makes no calendar provider call.
C7_RouteAfterExtraction ==
    \A r \in Reqs :
        LET st == req[r]
            info == st.extracted_info
            present(v) == v \notin {Absent, Null, Empty}
        IN (Len(st.path) >= 2 /\ st.path[2] = "extract_information")
           => IF info.isdict /\ present(info.title) /\ present(info.date)
              THEN NodeAfter(st, 2) = "check_availability"
              ELSE /\ NodeAfter(st, 2) = "ask_clarification"
                   /\ ~Has(st.path, "check_availability")
                   /\ ~Has(st.path, "confirm_booking")
                   /\ st.inserts = <<>> /\ st.suggested_times = <<>>
                   /\ "read" \notin st.faults
                   /\ calendar = Preexisting

\* C8: every turn that enters the graph ends in generate_response, after at
\* most 6 nodes and with no node run twice, whatever the NLU answers and
\* whatever calls fail.
C8_TurnReachesResponse ==
    \A r \in Reqs :
        LET st == req[r]
        IN /\ Len(st.path) <= 6
           /\ \A i, j \in 1..Len(st.path) : st.path[i] = st.path[j] => i = j
           /\ (st.pc = "returned" /\ st.path # <<>>)
                 => Last(st.path) = "generate_response"

\* C9: every slot find_free_slots returns starts on a weekday, at a time of
\* day from 09:00 up to but not including 17:00.
C9_SlotsInBusinessHours ==
    (fs.op = "find" /\ fs.done)
    => \A i \in 1..Len(fs.slots) :
          LET slot == fs.slots[i]
          IN /\ (slot.start_datetime \div 1440) % 7 \in 0..4
             /\ slot.start_datetime % 1440 >= 9 * 60
             /\ slot.start_datetime % 1440 < 17 * 60
             /\ slot.date % 7 \in 0..4
             /\ slot.start_time >= 9 * 60 /\ slot.start_time < 17 * 60

\* a search that started on a weekend, before opening, and found slots
C9_Witness ==
    /\ fs.op = "find" /\ fs.done
    /\ fs.start_date = 5 * MinutesPerDay
    /\ fs.cal # {}
    /\ Len(fs.slots) = 3

\* C10: no slot find_free_slots returns, and no interval check_availability
\* reports available, overlaps an event the provider reports for its window.
C10_NoFalseFreeSlots ==
    /\ (fs.op = "find" /\ fs.done)
       => \A i \in 1..Len(fs.slots) :
             LET slot == fs.slots[i]
             IN \A ev \in get_events(fs.cal, slot.start_datetime,
                                     slot.end_datetime) :
                   ~Conflict(slot.start_datetime, slot.end_datetime, ev)
    /\ (fs.op = "check" /\ fs.done /\ fs.available)
       => \A ev \in get_events(fs.cal, fs.start_date,
                               fs.start_date + fs.duration) :
             ~Conflict(fs.start_date, fs.start_date + fs.duration, ev)

\* a search over a calendar with events that skipped its first candidate
C10_Witness ==
    /\ fs.op = "find" /\ fs.done
    /\ fs.start_date = 0
    /\ \E ev \in fs.cal : ev.start = 540
    /\ fs.slots # <<>>
    /\ fs.slots[1].start_datetime > 540

\* C11: find_free_slots called with num_slots = N returns at most N slots,
\* in non-decreasing order of their start instants.
C11_AtMostNSlotsInOrder ==
    (fs.op = "find" /\ fs.done)
    => /\ Len(fs.slots) <= fs.num_slots
       /\ \A i, j \in 1..Len(fs.slots) :
             i < j => fs.slots[i].start_datetime <= fs.slots[j].start_datetime

\* a search over a week that stopped at the three slots it was asked for
C11_Witness ==
    /\ fs.op = "find" /\ fs.done
    /\ fs.num_slots = 3
    /\ fs.end_date - fs.start_date = days_ahead * MinutesPerDay
    /\ Len(fs.slots) = 3
    /\ fs.slots[1].start_datetime < fs.slots[3].start_datetime

\* C14: every slot find_free_slots returns has end - start equal to the
\* requested duration, as instants and as the (date, start_time, end_time)
\* strings: end_time read on the slot's date is start + duration.
C14_SlotDuration ==
    (fs.op = "find" /\ fs.done)
    => \A i \in 1..Len(fs.slots) :
          LET slot == fs.slots[i]
          IN /\ slot.end_datetime - slot.start_datetime = fs.duration
             /\ ParseDateTime(slot.date, slot.start_time) = slot.start_datetime
             /\ ParseDateTime(slot.date, slot.end_time)
                   = slot.start_datetime + fs.duration

\* the number of 30-minute steps that fit in the search range
MaxIterations == (fs.end_date - fs.start_date + SlotStep - 1) \div SlotStep

\* C12: the loop of find_free_slots makes at most (range / 30 minutes)
\* passes, 48 per day of the horizon, every pass moves the cursor strictly
\* forward, and the loop ends.
C12_LoopTerminates ==
    /\ [](fs.op = "loop" => fs.iters <= MaxIterations)
    /\ [][LoopStep => fs'.cur > fs.cur]_vars
    /\ <>(fs.op = "loop" => fs.done)

\* a search that started on a Saturday before opening, over a calendar
\* with no free slot, and ran out of range
C12_Witness ==
    /\ fs.op = "loop" /\ fs.done
    /\ fs.start_date = 5 * MinutesPerDay
    /\ fs.end_date - fs.start_date = days_ahead * MinutesPerDay
    /\ fs.slots = <<>>
    /\ fs.iters > 5 * 16

\* C13: no slot a turn suggests starts before the current instant, whatever
\* the requested date (today, past) and the time of day.
C13_NoSlotBeforeNow ==
    \A r \in Reqs :
        \A i \in 1..Len(req[r].suggested_times) :
            req[r].suggested_times[i].start_datetime >= now

\* C15: a failed NLU call does not abort the turn.  A classification that
\* raised or answered nothing gives intent general_query and the general
\* reply; an extraction that raised or answered nothing gives the empty
\* extraction and a clarification; and the turn, when no store call fails,
\* returns a successful response that went through generate_response.
C15_NluFailureIsAbsorbed ==
    \A r \in Reqs :
        LET st == req[r]
        IN ("nlu" \in st.faults)
           => /\ ~Has(st.path, "extract_information")
                    => /\ st.user_intent = "general_query"
                       /\ NodeAfter(st, 1) = "generate_response"
              /\ Has(st.path, "extract_information")
                    => /\ st.extracted_info = EmptyInfo
                       /\ NodeAfter(st, 2) = "ask_clarification"
              /\ (st.pc = "returned" /\ "store" \notin st.faults)
                    => /\ Last(st.path) = "generate_response"
                       /\ st.result[1].success
                       /\ st.result[1].response.kind
                             \in {"general", "need_more_information"}

\* a turn whose classification failed and that returned the general reply
C15_Witness ==
    \E r \in Reqs :
        /\ req[r].pc = "returned"
        /\ "nlu" \in req[r].faults
        /\ req[r].user_intent = "general_query"
        /\ req[r].result[1].success
        /\ req[r].result[1].response.kind = "general"

\* C16: when listing the provider's events fails during check_availability
\* and the turn has nothing to suggest, the response is a clarification
\* saying that the calendar could not be reached, which is neither the
\* missing-field question nor the more-details question.
C16_ReadFailureIsSaid ==
    \A r \in Reqs :
        LET st == req[r]
        IN (/\ st.pc = "end"
            /\ "read" \in st.faults
            /\ st.suggested_times = <<>>
            /\ ~Has(st.path, "confirm_booking"))
           => /\ st.needs_clarification
              /\ st.response[1].kind
                    \notin {"need_more_information", "more_details"}

\* C17: a store write that raises during a turn is not fatal: the graph
\* still runs to generate_response, the in-memory session gets the turn's
\* two messages, and the caller gets the response the graph composed.
C17_StoreFailureIsNotFatal ==
    \A r \in Reqs :
        LET st == req[r]
        IN (st.pc = "returned" /\ "store" \in st.faults)
           => /\ st.path # <<>>
              /\ Last(st.path) = "generate_response"
              /\ st.result[1].success
              /\ st.result[1].response = st.response[1]
              /\ conversations[st.conversation_id].present
              /\ Len(conversations[st.conversation_id].messages) >= 2

\* C18: when the one process_message call of a fresh agent has returned, on
\* success or through the except branch, the session's history holds
\* exactly the user text and then the response text that was returned.
C18_HistoryGrowsByTwo ==
    \A r \in Reqs :
        LET st == req[r]
        IN st.pc = "returned"
           => conversations[st.conversation_id].messages
                 = << Message("user", st.message),
                      Message("assistant", st.result[1].response) >>

\* C19: with the store enabled, a calendar_events row is written in a turn
\* exactly when the turn returns a confirmed booking, and the row's title,
\* start and end are those of the event the provider created.
C19_EventRowCopiesBooking ==
    \A r \in Reqs :
        LET st == req[r]
            booked == st.result[1].success /\ st.result[1].booking_info # <<>>
        IN (st.pc = "returned" /\ dbEnabled)
           => /\ (db_events # <<>>) <=> booked
              /\ booked
                    => /\ Len(db_events) = 1
                       /\ db_events[1].conversation_id = st.conversation_id
                       /\ db_events[1].title = st.booking_info[1].title
                       /\ db_events[1].start_time = Last(st.inserts).start
                       /\ db_events[1].end_time = Last(st.inserts).end

\* the call in request slot r is between its start and its return
Active(r) == req[r].pc \notin {"idle", "returned"}

\* C20: at most one process_message call per conversation_id is between
\* its start and its return at any time.
C20_OneActiveTurnPerConversation ==
    \A r1, r2 \in Reqs :
        (r1 # r2 /\ Active(r1) /\ Active(r2))
        => req[r1].conversation_id # req[r2].conversation_id

\* the kinds of text that are clarifications
ClarificationKinds == {"need_more_information", "more_details"}

\* C21: every process_message call returns exactly one of the four
\* outcomes: a clarification (no booking, no slots), a non-empty slot list
\* (no booking), a confirmed booking (no slots) or a general reply (neither),
\* on every path, failures of the NLU, the provider and the store included.
C21_ExactlyOneVariant ==
    \A r \in Reqs :
        LET st == req[r]
            res == st.result[1]
            kind == res.response.kind
        IN st.pc = "returned"
           => /\ res.success
              /\ kind \in ClarificationKinds \cup {"slots", "booked", "general"}
              /\ ~(res.booking_info # <<>> /\ res.suggested_times # <<>>)
              /\ (kind = "slots") <=> (res.suggested_times # <<>>)
              /\ (kind = "booked") <=> (res.booking_info # <<>>)

\* C22: tools.create_event is only called with a complete request: whenever
\* a turn is at, or has run, the node confirm_booking, the extracted title,
\* date and start time are all present (neither missing, null nor empty),
\* and the booking made carries that title and that date, never the default
\* title.
C22_CreateEventHasCompleteRequest ==
    \A r \in Reqs :
        LET st == req[r]
            info == st.extracted_info
        IN (st.pc = "confirm_booking" \/ Has(st.path, "confirm_booking"))
           => /\ Truthy(info.title) /\ Truthy(info.date)
              /\ Truthy(info.start_time)
              /\ \A i \in 1..Len(st.booking_info) :
                    /\ st.booking_info[i].title = info.title
                    /\ st.booking_info[i].title # DefaultTitle
                    /\ st.booking_info[i].date = info.date
                    /\ st.booking_info[i].start_time = info.start_time

\* a turn that called create_event and returned the booking
C22_Witness ==
    \E r \in Reqs :
        /\ req[r].pc = "returned"
        /\ Has(req[r].path, "confirm_booking")
        /\ Len(req[r].inserts) = 1
        /\ req[r].result[1].booking_info # <<>>

\* the fields among title, date and start time that a request lacks, in
\* that order
MissingFields(info) ==
    LET Lacks(f) == ~Truthy(info[f])
    IN SelectSeq(<<"title", "date", "start_time">>, Lacks)

\* C23: the clarification asked about an incomplete request lists exactly
\* the fields missing among title, date and start time, in that order, in
\* the sentence "I need to know X to book your appointment." (X and Y for
\* two fields; X, Y, and Z for three).
C23_ClarificationNamesMissingFields ==
    \A r \in Reqs :
        LET st == req[r]
            info == st.extracted_info
        IN (/\ st.pc = "returned"
            /\ st.result[1].success
            /\ Has(st.path, "ask_clarification")
            /\ MissingFields(info) # <<>>)
           => /\ st.result[1].response.missing = MissingFields(info)
              /\ st.result[1].response.kind = "need_to_know"
              /\ st.result[1].response = generate_clarification_question(info)

\* C24: check_availability, when the provider's listing answers, reports
\* the candidate [s, e) unavailable if and only if some event [s', e') of
\* the provider has s < e' and s' < e; a candidate that ends when an event
\* starts, or starts when an event ends, is reported available.
C24_HalfOpenOverlap ==
    (fs.op = "check" /\ fs.done /\ fs.readOk)
    => LET s == fs.start_date
           e == fs.start_date + fs.duration
       IN (~fs.available) <=> (\E ev \in fs.cal : s < ev.end /\ ev.start < e)

\* a candidate reported available that ends exactly when an event starts
C24_Witness ==
    /\ fs.op = "check" /\ fs.done /\ fs.readOk
    /\ fs.available
    /\ \E ev \in fs.cal : ev.start = fs.start_date + fs.duration

\* a requested start outside 09:00-17:00 or on a Saturday or Sunday
OffHours(info) ==
    LET s == ParseDateTime(info.date, info.start_time)
    IN \/ WeekdayOf(s) >= 5
       \/ HourOf(s) < business_start
       \/ HourOf(s) >= business_end

\* C25: the exact-slot check filters neither by business hours nor by
\* weekday: a turn that asks for a date and start time outside 09:00-17:00
\* or on a Saturday or Sunday, with a title, on a calendar with no event
\* conflicting with the requested interval, and in which no call failed,
\* confirms a booking at exactly the requested time.
C25_OffHoursExactSlotIsBooked ==
    \A r \in Reqs :
        LET st == req[r]
            info == st.extracted_info
            s == ParseDateTime(info.date, info.start_time)
            e == s + RequestedDuration(info)
        IN (/\ st.pc = "returned"
            /\ st.user_intent \in {"book_appointment", "check_availability"}
            /\ info.isdict
            /\ Truthy(info.title) /\ Parses(info.date)
            /\ Parses(info.start_time)
            /\ OffHours(info)
            /\ st.faults = {}
            /\ \A ev \in Preexisting : ~Conflict(s, e, ev))
           => /\ st.result[1].response.kind = "booked"
              /\ st.result[1].suggested_times = <<>>
              /\ Len(st.result[1].booking_info) = 1
              /\ st.result[1].booking_info[1].date = info.date
              /\ st.result[1].booking_info[1].start_time = info.start_time
              /\ Len(st.inserts) = 1 /\ st.inserts[1].start = s

\* C26: a request whose extraction gives no duration (the key is missing
\* or null) is handled with 60 minutes: with a parsed date and no failed
\* call, a free exact slot is booked as [start, start + 60); otherwise the
\* slots suggested last 60 minutes and, when a free 60-minute candidate
\* exists, the turn suggests slots and does not ask for clarification.
C26_DurationDefaultsTo60 ==
    \A r \in Reqs :
        LET st == req[r]
            info == st.extracted_info
            s == ParseDateTime(info.date, info.start_time)
            e == s + DefaultDuration
            exact == /\ Parses(info.start_time)
                     /\ \A ev \in Preexisting : ~Conflict(s, e, ev)
        IN (/\ st.pc = "returned"
            /\ Has(st.path, "check_availability")
            /\ info.duration \in {Absent, Null}
            /\ st.faults = {}
            /\ Parses(info.date)
            /\ ~Truthy(info.start_time) \/ Parses(info.start_time))
           => /\ exact
                 => /\ st.result[1].response.kind = "booked"
                    /\ Len(st.inserts) = 1
                    /\ st.inserts[1].start = s /\ st.inserts[1].end = e
              /\ ~exact
                 => /\ st.inserts = <<>>
                    /\ \A i \in 1..Len(st.suggested_times) :
                          st.suggested_times[i].end_datetime
                              = st.suggested_times[i].start_datetime
                                + DefaultDuration
                    /\ FreeCandidates(info.date, DefaultDuration) # {}
                       => st.result[1].response.kind = "slots"

\* C27: the booking a turn confirms, and the calendar_events row written
\* for it, start at the requested date and start time and end at start +
\* duration as instants, so that the end is after the start, also when the
\* end falls on the next day.
C27_BookingIntervalIsExact ==
    \A r \in Reqs :
        LET st == req[r]
            info == st.extracted_info
            res == st.result[1]
            start == ParseDateTime(info.date, info.start_time)
            end == start + RequestedDuration(info)
        IN (st.pc = "returned" /\ res.success /\ res.booking_info # <<>>)
           => LET b == res.booking_info[1]
              IN /\ ParseDateTime(b.date, b.start_time) = start
                 /\ ParseDateTime(b.date, b.end_time) = end
                 /\ ParseDateTime(b.date, b.end_time)
                       > ParseDateTime(b.date, b.start_time)
                 /\ \A i \in 1..Len(db_events) :
                       /\ db_events[i].start_time = start
                       /\ db_events[i].end_time = end
                       /\ db_events[i].end_time > db_events[i].start_time

\* the history the agent returns for a conversation
History(cid) ==
    get_conversation_history(dbEnabled, db_messages, conversations, cid)

\* a process_message call for the conversation is between start and return
InFlight(cid) ==
    \E r \in Reqs : Active(r) /\ req[r].conversation_id = cid

IsPrefix(a, b) == Len(a) <= Len(b) /\ SubSeq(b, 1, Len(a)) = a

\* C28: the life of a session.  A process_message call whose first save
\* succeeds leaves a session for its id, new and empty if there was none;
\* no step of any turn removes a session or shortens a history; a clear of
\* an id with no turn in flight leaves no session and an empty history;
\* and an empty history stays empty until the next call for the id starts,
\* which starts from the empty history.
C28_SessionLifecycle ==
    [][\A cid \in ConvIds :
          LET before == History(cid)
              after == get_conversation_history(
                           dbEnabled', db_messages', conversations', cid)
              turnStep == req' # req
              started ==
                  /\ turns' = turns + 1
                  /\ \E r \in Reqs : /\ req'[r].message = turns'
                                      /\ req'[r].conversation_id = cid
                                      /\ req'[r].pc = "understand_intent"
              cleared ==
                  /\ req' = req
                  /\ <<conversations'[cid], db_messages'[cid], db_states'[cid]>>
                        # <<conversations[cid], db_messages[cid], db_states[cid]>>
          IN /\ started
                => /\ conversations'[cid].present
                   /\ ~conversations[cid].present
                         => conversations'[cid].messages = <<>>
                   /\ before = <<>>
                         => \/ after = <<>>
                            \/ after = <<Message("user", turns')>>
             /\ turnStep
                => /\ conversations[cid].present
                         => conversations'[cid].present
                   /\ IsPrefix(before, after)
             /\ (cleared /\ ~InFlight(cid))
                => /\ ~conversations'[cid].present
                   /\ after = <<>>
                   /\ db_states'[cid] = NoState
             /\ (before = <<>> /\ ~InFlight(cid) /\ ~started)
                => after = <<>>
      ]_vars

\* a conversation booked in the first turn, cleared, and started again by
\* the second turn: its history is the second turn's two messages
C28_Witness ==
    /\ dbEnabled
    /\ turns = 2
    /\ req[1].pc = "returned" /\ req[1].result[1].success
    /\ req[1].conversation_id = "A"
    /\ Len(db_events) = 1 /\ db_events[1].conversation_id = "A"
    /\ conversations["A"].present /\ conversations["A"].gen = 2
    /\ History("A") = << Message("user", 2),
                        Message("assistant", req[1].result[1].response) >>

\* what the agent and the store hold for one conversation
SessionData(cid) == <<conversations[cid], db_messages[cid], db_states[cid]>>

\* C29: a step of a process_message call on a conversation, and a clear of
\* a conversation, leave the session, the stored messages and the stored
\* state of every other conversation unchanged, in every interleaving of
\* calls and clears.
C29_SessionIsolation ==
    [][\A B \in ConvIds :
          SessionData(B)' # SessionData(B)
          => /\ \A r \in Reqs :
                   req'[r] # req[r] => req'[r].conversation_id = B
             /\ \A A \in ConvIds \ {B} : SessionData(A)' = SessionData(A)
      ]_vars

\* a call on B that started and returned while a call on A is running
C29_Witness ==
    /\ Active(1) /\ req[1].conversation_id = "A" /\ req[1].message = 1
    /\ req[2].pc = "returned" /\ req[2].conversation_id = "B"
    /\ req[2].message = 2 /\ req[2].result[1].success
    /\ conversations["A"].present
    /\ Len(History("B")) = 2
    /\ db_states["B"] # NoState

\* C30: two process_message calls in which no call failed, that got the
\* same classification and the same extraction and read the same events
\* from the provider at the same current time, return the same outcome:
\* the same kind of reply with the same missing fields, the same slots or
\* the same booking interval, whatever the conversations they belong to and
\* whatever the agent holds for any conversation.
C30_Determinism ==
    \A r1, r2 \in Reqs :
        (/\ req[r1].pc = "returned" /\ req[r2].pc = "returned"
         /\ req[r1].faults = {} /\ req[r2].faults = {}
         /\ req[r1].user_intent = req[r2].user_intent
         /\ req[r1].extracted_info = req[r2].extracted_info
         /\ req[r1].seen = req[r2].seen)
        => /\ req[r1].result = req[r2].result
           /\ Len(req[r1].inserts) = Len(req[r2].inserts)
           /\ \A i \in 1..Len(req[r1].inserts) :
                 /\ req[r1].inserts[i].start = req[r2].inserts[i].start
                 /\ req[r1].inserts[i].end = req[r2].inserts[i].end

\* two calls of different conversations that read the same events and both
\* suggested slots
C30_Witness ==
    /\ req[1].pc = "returned" /\ req[2].pc = "returned"
    /\ req[1].faults = {} /\ req[2].faults = {}
    /\ req[1].conversation_id # req[2].conversation_id
    /\ req[1].extracted_info = req[2].extracted_info
    /\ req[1].seen = req[2].seen /\ req[1].seen # <<>>
    /\ req[1].result[1].suggested_times # <<>>
    /\ req[1].result = req[2].result

\* the messages the agent holds in memory for a conversation
InMemory(cid) ==
    IF conversations[cid].present THEN conversations[cid].messages ELSE <<>>

\* C31: with the store enabled, whenever no process_message call is
\* running (after every call that returned, also through the except
\* branch, and after every clear), the messages held in memory for each
\* conversation are the messages the store holds for it, and they are what
\* get_conversation_history returns.
C31_MemoryEqualsStore ==
    (dbEnabled /\ \A r \in Reqs : ~Active(r))
    => \A cid \in ConvIds :
          /\ InMemory(cid) = db_messages[cid]
          /\ History(cid) = db_messages[cid]

\* the day a search starts from: the requested date, or today when the
\* requested date is in the past
CandidateStart(date) == IF date < DateOf(now) THEN DateOf(now) ELSE date

\* C32: every slot find_available_slots returns starts on or after the day
\* the search starts from and strictly before that day plus the horizon in
\* days; for a requested date in the past, the search starts from today.
C32_SlotsWithinHorizon ==
    (fs.op = "search" /\ fs.done)
    => \A i \in 1..Len(fs.slots) :
          LET start == fs.slots[i].start_datetime
          IN /\ start >= CandidateStart(fs.date) * MinutesPerDay
             /\ start < (CandidateStart(fs.date) + fs.days) * MinutesPerDay

\* a search from a date in the past that the horizon cut short
C32_Witness ==
    /\ fs.op = "search" /\ fs.done
    /\ fs.date < DateOf(now)
    /\ fs.slots # <<>> /\ Len(fs.slots) < fs.num_slots
    /\ \E t \in {(CandidateStart(fs.date) + fs.days) * MinutesPerDay
                    + 60 * h : h \in business_start..(business_end - 1)} :
          /\ WeekdayOf(t) < 5
          /\ \A ev \in fs.cal : ~Conflict(t, t + fs.duration, ev)

\* the candidates of a search: the 30-minute grid of the weekday business
\* hours of the days of the horizon
SearchGrid ==
    {t \in {d * MinutesPerDay + business_start * 60 + SlotStep * k :
               d \in CandidateStart(fs.date)
                       ..(CandidateStart(fs.date) + fs.days - 1),
               k \in 0..((business_end - business_start) * 2 - 1)} :
        WeekdayOf(t) < 5}

\* no event of the searched calendar conflicts with the candidate at t
SlotFree(t) ==
    \A ev \in fs.cal : ~Conflict(t, t + fs.duration, ev)

\* C33: find_available_slots does not clip at close of business: a
\* conflict-free candidate that starts before 17:00 and ends after 17:00,
\* and that the requested count does not cut off, is returned with its
\* full duration.
C33_NoClipAtClose ==
    (fs.op = "search" /\ fs.done /\ fs.readOk /\ fs.duration # Null)
    => \A t \in SearchGrid :
          (/\ SlotFree(t)
           /\ TimeOf(t) + fs.duration > business_end * 60
           /\ \/ Len(fs.slots) < fs.num_slots
              \/ t <= Last(fs.slots).start_datetime)
          => \E i \in 1..Len(fs.slots) :
                /\ fs.slots[i].start_datetime = t
                /\ fs.slots[i].end_datetime = t + fs.duration

\* a returned slot that starts at 16:30 and ends at 17:30
C33_Witness ==
    /\ fs.op = "search" /\ fs.done /\ fs.readOk
    /\ \E i \in 1..Len(fs.slots) :
          /\ TimeOf(fs.slots[i].start_datetime) = 990
          /\ fs.slots[i].end_datetime = fs.slots[i].start_datetime + 60
          /\ fs.slots[i].end_time = 1050

\* C34: an event is only created on a checked slot: every insert a turn
\* asks of the provider follows, in that turn, an exact check of the same
\* interval that answered available, a turn at the node confirm_booking
\* has such a check behind it, and a turn asks for at most one insert.
C34_CreateFollowsCheck ==
    \A r \in Reqs :
        LET st == req[r]
        IN /\ Len(st.inserts) <= 1
           /\ \A i \in 1..Len(st.inserts) :
                 \E j \in 1..Len(st.checked) :
                    /\ st.checked[j].available
                    /\ st.checked[j].start = st.inserts[i].start
                    /\ st.checked[j].end = st.inserts[i].end
           /\ (st.pc = "confirm_booking" \/ Has(st.path, "confirm_booking"))
                 => \E j \in 1..Len(st.checked) : st.checked[j].available

\* a turn that booked a 30-minute slot it had checked
C34_Witness ==
    \E r \in Reqs :
        /\ req[r].pc = "returned"
        /\ Len(req[r].inserts) = 1 /\ req[r].inserts[1].ok
        /\ req[r].inserts[1].end = req[r].inserts[1].start + 30
        /\ Len(req[r].checked) = 1 /\ req[r].checked[1].available

\* C35: a turn in which the provider created an event returns the booking
\* confirmation (success, with the booking attached); a turn that returns
\* anything else has created no event.
C35_BookingIsReported ==
    \A r \in Reqs :
        LET st == req[r]
            created == \E i \in 1..Len(st.inserts) : st.inserts[i].ok
        IN st.pc = "returned"
           => (created <=> /\ st.result[1].success
                           /\ st.result[1].booking_info # <<>>
                           /\ st.result[1].response.kind = "booked")

\* the events the provider created for the agent
Created == {ev \in calendar : ev.id >= FirstNewEventId}

\* C36: no double booking, in any interleaving of calls: no two events
\* created through the agent conflict, and no created event conflicts
\* with an event the provider held before.
C36_NoDoubleBooking ==
    /\ \A ev1, ev2 \in Created :
          ev1 # ev2 => ~Conflict(ev1.start, ev1.end, ev2)
    /\ \A ev1 \in Created, ev2 \in Preexisting :
          ~Conflict(ev1.start, ev1.end, ev2)

\* C37: asking again for a booked interval does not book it twice: a turn
\* that requests exactly the interval of an event the agent created
\* before, and that read the calendar with that event in it, finds the
\* interval taken, asks for no insert and, when no store call fails,
\* returns slot suggestions or a clarification.
C37_NoRebooking ==
    \A r \in Reqs : \A ev \in Created :
        LET st == req[r]
            info == st.extracted_info
            s == ParseDateTime(info.date, info.start_time)
        IN (/\ st.pc = "returned"
            /\ st.seen # <<>> /\ ev \in st.seen[1]
            /\ Parses(info.date) /\ Parses(info.start_time)
            /\ s = ev.start /\ s + RequestedDuration(info) = ev.end)
           => /\ st.inserts = <<>>
              /\ \A j \in 1..Len(st.checked) : ~st.checked[j].available
              /\ Cardinality({e \in Created : e.start = ev.start}) = 1
              /\ "store" \notin st.faults
                    => /\ st.result[1].success
                       /\ st.result[1].booking_info = <<>>
                       /\ st.result[1].response.kind
                             \in ClarificationKinds \cup {"slots"}

\* a second turn that asked for the interval the first turn booked and got
\* slot suggestions
C37_Witness ==
    \E ev \in Created :
        /\ req[1].pc = "returned" /\ req[1].message = 2
        /\ req[1].seen # <<>> /\ ev \in req[1].seen[1]
        /\ Len(req[1].checked) = 1
        /\ req[1].checked[1].start = ev.start
        /\ req[1].checked[1].end = ev.end
        /\ req[1].result[1].response.kind = "slots"

FreeGrid == {t \in SearchGrid : SlotFree(t)}

\* C39: find_available_slots returns the earliest free candidates: as many
\* as asked for, or all of them when there are fewer, each a conflict-free
\* candidate of the 30-minute grid of the weekday business hours of the
\* horizon, in increasing order at least 30 minutes apart, and with no
\* conflict-free candidate before the last returned slot left out.
C39_EarliestFreeCandidates ==
    (fs.op = "search" /\ fs.done /\ fs.readOk /\ fs.duration # Null)
    => /\ Len(fs.slots) = IF Cardinality(FreeGrid) < fs.num_slots
                          THEN Cardinality(FreeGrid) ELSE fs.num_slots
       /\ \A i \in 1..Len(fs.slots) :
             /\ fs.slots[i].start_datetime \in FreeGrid
             /\ i > 1 => fs.slots[i].start_datetime
                            >= fs.slots[i - 1].start_datetime + SlotStep
       /\ \A t \in FreeGrid :
             (fs.slots # <<>> /\ t < Last(fs.slots).start_datetime)
             => \E i \in 1..Len(fs.slots) : fs.slots[i].start_datetime = t

\* a search cut by the count that stepped over a taken candidate between
\* two returned slots
C39_Witness ==
    /\ fs.op = "search" /\ fs.done /\ fs.readOk
    /\ Len(fs.slots) = fs.num_slots
    /\ Cardinality(FreeGrid) > fs.num_slots
    /\ \E t \in SearchGrid :
          /\ ~SlotFree(t)
          /\ fs.slots[1].start_datetime < t
          /\ t < Last(fs.slots).start_datetime

====
